---- MODULE Spec2Model ----
(***************************************************************************)
(* Model of simple_web_app.py: the Flask handlers start_research and       *)
(* send_message, the global status dictionary, the message_queue, and the  *)
(* background coroutine run_research_session driving a remote agent,       *)
(* thread and runs.                                                        *)
(*                                                                         *)
(* Human text is a sequence of one-character strings; assistant text and   *)
(* run error messages are sequences of words.  Python's None and the empty *)
(* string are both falsy and both written <<>> (user_message_content), 0   *)
(* stands for the None message id, and NoneVal for a None status field.    *)
(***************************************************************************)
EXTENDS Integers, Sequences, FiniteSets, TLC

\* ---------------------------------------------------------------- bounds
\* A behaviour is explored within one of three budgets, chosen at the start:
\* one session that may go through MaxRuns runs; MaxWorkers sessions, started
\* in any order and overlap the handlers allow, that share RaceRuns runs; or
\* MaxWorkers sessions, each requested after the one before it has ended, that
\* share SeqRuns runs.  The remote's deletions may fail where sessions do not
\* overlap.
\* A reply is sent only while fewer than MaxQueue messages are queued.
MaxWorkers == 2      \* threads that start_research may spawn in one behaviour
MaxQueue == 1        \* queued messages from which on no reply is sent
MaxRuns == 3         \* runs created by a single session
MaxThreadMsgs == 1   \* assistant messages the remote writes in a single session
RaceRuns == 0        \* runs created by several sessions together
RaceMsgs == 0        \* assistant messages the remote writes for several sessions
MaxBurst == 1        \* assistant messages the remote adds between two observations

SeqRuns == 1          \* runs created by sessions that follow one another
SeqMsgs == 1          \* assistant messages the remote writes for such sessions

Budgets ==
    { [workers |-> 1, runs |-> MaxRuns, msgs |-> MaxThreadMsgs, overlap |-> TRUE,
       faults |-> TRUE],
      [workers |-> MaxWorkers, runs |-> RaceRuns, msgs |-> RaceMsgs, overlap |-> TRUE,
       faults |-> FALSE],
      [workers |-> MaxWorkers, runs |-> SeqRuns, msgs |-> SeqMsgs, overlap |-> FALSE,
       faults |-> TRUE] }

\* ------------------------------------------------------ program constants
max_retries == 3

NoneVal == "None"
\* str(e) of whatever exception is caught (lines 377 and 399)
ExceptionText == "str(e)"
SENTINEL == <<"start_research_task">>

Workers == 1..MaxWorkers

\* ------------------------------------------------------------ text helpers
Whitespace == {" "}

RECURSIVE LStrip(_)
LStrip(s) == IF s # <<>> /\ Head(s) \in Whitespace THEN LStrip(Tail(s)) ELSE s

RECURSIVE RStrip(_)
RStrip(s) ==
    IF s # <<>> /\ s[Len(s)] \in Whitespace THEN RStrip(SubSeq(s, 1, Len(s) - 1)) ELSE s

\* str.strip()
Strip(s) == RStrip(LStrip(s))

LowerChar(c) ==
    CASE c = "E" -> "e" [] c = "X" -> "x" [] c = "I" -> "i" [] c = "T" -> "t"
      [] c = "Q" -> "q" [] c = "U" -> "u" [] c = "A" -> "a"
      [] OTHER -> c

\* str.lower()
Lower(s) == [i \in DOMAIN s |-> LowerChar(s[i])]

\* needle in hay
Contains(needle, hay) ==
    \E i \in 0..(Len(hay) - Len(needle)) : SubSeq(hay, i + 1, i + Len(needle)) = needle

\* "\n".join(t.text.value for t in message.text_messages)
RECURSIVE JoinNL(_)
JoinNL(segs) ==
    IF segs = <<>> THEN <<>>
    ELSE IF Len(segs) = 1 THEN segs[1]
    ELSE segs[1] \o <<"\n">> \o JoinNL(Tail(segs))

\* ---------------------------------------------------------------- inputs
\* request bodies: the raw 'topic' / 'message' field
RawTopics == { <<>>, <<" ">>, <<" ", "a", " ">> }
RawMessages == { <<" ">>, <<"b", " ">>, <<"Q", "u", "i", "t">> }

ExitWords == { <<"e", "x", "i", "t">>, <<"q", "u", "i", "t">> }

\* what the remote agent may answer: text segments and citation annotations
AgentReplies ==
    { [text_messages |-> << <<"which", "year?">> >>, url_citation_annotations |-> <<>>],
      [text_messages |-> << <<"ok">>, <<"calling", "start_research_task", "now">> >>,
       url_citation_annotations |-> <<>>],
      [text_messages |-> << <<"report">> >>,
       url_citation_annotations |-> << [title |-> "A", url |-> "u1"] >>] }

\* run.last_error of a failed run
RunErrors ==
    { [code |-> "tool_server_error", message |-> <<"too", "many", "values", "to", "unpack">>],
      [code |-> "server_error", message |-> <<"Sorry,", "something", "went", "wrong">>],
      [code |-> "rate_limit_exceeded", message |-> <<"slow", "down">>] }

NoError == [code |-> NoneVal, message |-> <<>>]

PendingStatuses == {"queued", "in_progress"}
TerminalStatuses == {"completed", "failed", "expired"}

\* --------------------------------------------------------------- variables
VARIABLES
    status,                 \* the global status dictionary
    message_queue,          \* queue.Queue of human text
    pc,                     \* position of each worker thread
    agent_id_to_delete,     \* per worker: TRUE once the agent id is recorded
    thread_id_to_delete,    \* per worker: TRUE once the thread id is recorded
    initial_topic,          \* per worker local
    user_message_content,   \* per worker local
    last_message_id,        \* per worker local
    agent_response_text,    \* per worker local
    current_retries,        \* per worker local
    run,                    \* per worker local: the run last created, as last read
    thread_messages,        \* remote: assistant messages on the worker's thread
    posted,                 \* remote: user messages posted on the worker's thread
    runs,                   \* remote: runs created on the worker's thread
    deletions,              \* remote: delete calls attempted by the worker
    budget,                 \* what is left of the behaviour's budget
    call                    \* a function of the program applied on its own

created == <<agent_id_to_delete, thread_id_to_delete>>
loop == <<initial_topic, user_message_content, last_message_id, agent_response_text,
          current_retries, run, thread_messages, posted, runs>>
vars == <<status, message_queue, pc, agent_id_to_delete, thread_id_to_delete,
          initial_topic, user_message_content, last_message_id, agent_response_text,
          current_retries, run, thread_messages, posted, runs, deletions, budget,
          call>>

FreshStatus ==
    [is_running |-> FALSE, messages |-> <<>>, waiting_for_input |-> FALSE,
     error |-> NoneVal, result_file |-> NoneVal]

NoRun == [status |-> NoneVal, last_error |-> NoError]

\* the assistant messages of a remote thread: how many, and the last one, which
\* is the only one the program can ask for; id 0 stands for no message
NoMessages == [n |-> 0, text_messages |-> <<>>, url_citation_annotations |-> <<>>]

\* the user messages on a remote thread: how many, and the last one
NoPosts == [n |-> 0, last |-> [kind |-> NoneVal, content |-> <<>>]]
Post(p, kind, content) == [n |-> p.n + 1, last |-> [kind |-> kind, content |-> content]]

\* the runs of a remote thread: whether the last one was created with the tool
\* definitions, and how many ended failed since the last one that ended
\* completed
NoRuns == [forced |-> FALSE, failed_in_a_row |-> 0]
RunCreated(rs, forced) == [rs EXCEPT !.forced = forced]
RunEnded(rs, run_status) ==
    [rs EXCEPT !.failed_in_a_row =
        IF run_status = "completed" THEN 0
        ELSE IF run_status = "failed" THEN @ + 1
        ELSE @]

\* no function is applied on its own while sessions run
NoCall == [fn |-> NoneVal, input |-> <<>>, outputs |-> <<>>]

\* lines 94-103: the module's globals, before any request
Idle ==
    /\ status = FreshStatus
    /\ message_queue = <<>>
    /\ pc = [w \in Workers |-> "unborn"]
    /\ agent_id_to_delete = [w \in Workers |-> FALSE]
    /\ thread_id_to_delete = [w \in Workers |-> FALSE]
    /\ initial_topic = [w \in Workers |-> <<>>]
    /\ user_message_content = [w \in Workers |-> <<>>]
    /\ last_message_id = [w \in Workers |-> 0]
    /\ agent_response_text = [w \in Workers |-> <<>>]
    /\ current_retries = [w \in Workers |-> 0]
    /\ run = [w \in Workers |-> NoRun]
    /\ thread_messages = [w \in Workers |-> NoMessages]
    /\ posted = [w \in Workers |-> NoPosts]
    /\ runs = [w \in Workers |-> NoRuns]
    /\ deletions = [w \in Workers |-> <<>>]
    /\ budget \in Budgets

Init == Idle /\ call = NoCall

\* ------------------------------------------------------------ API handlers
Alive(w) == pc[w] \notin {"unborn", "done"}
Spawned == {w \in Workers : pc[w] # "unborn"}

\* a faulty variant of the guard: it never rejects
StartRejected_Never(st) == FALSE

\* line 425: the guard of start_research
StartRejected(st) == st.is_running

\* lines 425-432 and 452: the status code start_research answers with
StartResponse(st, raw) == IF StartRejected(st) \/ Strip(raw) = <<>> THEN 400 ELSE 200

\* POST /api/start_research, answered with code
start_research(raw, code) ==
    /\ code = StartResponse(status, raw)
    /\ IF code = 400
       THEN UNCHANGED vars
       ELSE /\ budget.workers > 0
            /\ budget.overlap \/ \A w \in Workers : ~Alive(w)
            /\ budget' = [budget EXCEPT !.workers = @ - 1]
            /\ status' = FreshStatus
            /\ message_queue' = Append(message_queue, Strip(raw))
            /\ pc' = [pc EXCEPT ![Cardinality(Spawned) + 1] = "spawned"]
            /\ UNCHANGED <<created, loop, deletions, call>>

\* a faulty variant of the guards: the turn is not checked
SendRejected_AnyTurn(st, message) ==
    \/ ~st.is_running
    \/ message = <<>>

\* lines 458-468: the guards of send_message
SendRejected(st, message) ==
    \/ ~st.is_running
    \/ ~st.waiting_for_input
    \/ message = <<>>

\* lines 458-475: the status code send_message answers with
SendResponse(st, raw) == IF SendRejected(st, Strip(raw)) THEN 400 ELSE 200

\* POST /api/send_message, answered with code
send_message(raw, code) ==
    /\ code = SendResponse(status, raw)
    /\ IF code = 400
       THEN UNCHANGED vars
       ELSE /\ Len(message_queue) < MaxQueue
            /\ message_queue' = Append(message_queue, Strip(raw))
            /\ UNCHANGED <<status, pc, created, loop, deletions, budget, call>>

\* ------------------------------------------------------- the remote service
\* the assistant messages the remote may write between two observations: how
\* many, and the last of them
NoBurst == [n |-> 0, last |-> [text_messages |-> <<>>, url_citation_annotations |-> <<>>]]
Bursts ==
    {NoBurst} \cup
    { [n |-> k, last |-> m] : k \in { i \in 1..MaxBurst : i <= budget.msgs }, m \in AgentReplies }

\* the thread after the remote has written the messages of burst
AfterBurst(msgs, burst) ==
    IF burst.n = 0 THEN msgs
    ELSE [n |-> msgs.n + burst.n,
          text_messages |-> burst.last.text_messages,
          url_citation_annotations |-> burst.last.url_citation_annotations]

\* a run object as the service reports it
RunObjects(statuses) ==
    { [status |-> s, last_error |-> NoError] : s \in statuses \ {"failed"} }
      \cup { [status |-> "failed", last_error |-> e] :
                e \in IF "failed" \in statuses THEN RunErrors ELSE {} }

\* a faulty variant: the citations of the message are lost
LastAgentMessage_NoCitations(msgs) ==
    [id |-> msgs.n, text_messages |-> msgs.text_messages, url_citation_annotations |-> <<>>]

\* messages.get_last_message_by_role(role=AGENT): the message and its id
LastAgentMessage(msgs) ==
    [id |-> msgs.n, text_messages |-> msgs.text_messages,
     url_citation_annotations |-> msgs.url_citation_annotations]

Entry(role, content) == [role |-> role, content |-> content]

\* ---------------------------------------------------- run_research_session
\* a faulty variant: the agent is never deleted
AfterAgentDelete_Skipped(ds, agent_id, ok) == ds

\* lines 382-387: delete_agent if an agent id was recorded; ok is its outcome
AfterAgentDelete(ds, agent_id, ok) ==
    IF agent_id THEN Append(ds, [what |-> "agent", ok |-> ok]) ELSE ds

\* a faulty variant: the thread is deleted only if the call before it went well
AfterThreadDelete_Chained(ds, thread_id, ok) ==
    IF thread_id /\ \A i \in DOMAIN ds : ds[i].ok
    THEN Append(ds, [what |-> "thread", ok |-> ok])
    ELSE ds

\* a faulty variant: the thread is deleted ahead of the agent
AfterThreadDelete_First(ds, thread_id, ok) ==
    IF thread_id THEN << [what |-> "thread", ok |-> ok] >> \o ds ELSE ds

\* lines 389-394: threads.delete if a thread id was recorded; ok is its outcome
AfterThreadDelete(ds, thread_id, ok) ==
    IF thread_id THEN Append(ds, [what |-> "thread", ok |-> ok]) ELSE ds

\* lines 384 and 391: the deletions called, whatever their outcome
Attempted(ds) == [i \in DOMAIN ds |-> ds[i].what]

\* lines 379-394: the loop is left with the status dictionary st, and the
\* finally of the inner try deletes what was created; a failed
\* deletion is only logged.  The locals of the loop are not read once the loop is
\* left and no call is made on the thread afterwards: both stop being tracked.
Leave(w, st, agent_id, thread_id) ==
    /\ status' = st
    /\ agent_id_to_delete' = [agent_id_to_delete EXCEPT ![w] = agent_id]
    /\ thread_id_to_delete' = [thread_id_to_delete EXCEPT ![w] = thread_id]
    /\ \E agent_ok \in (IF agent_id /\ budget.faults THEN BOOLEAN ELSE {TRUE}),
          thread_ok \in (IF thread_id /\ budget.faults THEN BOOLEAN ELSE {TRUE}) :
          deletions' = [deletions EXCEPT ![w] =
              AfterThreadDelete(AfterAgentDelete(<<>>, agent_id, agent_ok),
                                thread_id, thread_ok)]
    /\ initial_topic' = [initial_topic EXCEPT ![w] = <<>>]
    /\ user_message_content' = [user_message_content EXCEPT ![w] = <<>>]
    /\ last_message_id' = [last_message_id EXCEPT ![w] = 0]
    /\ agent_response_text' = [agent_response_text EXCEPT ![w] = <<>>]
    /\ current_retries' = [current_retries EXCEPT ![w] = 0]
    /\ run' = [run EXCEPT ![w] = NoRun]
    /\ thread_messages' = [thread_messages EXCEPT ![w] = NoMessages]
    /\ posted' = [posted EXCEPT ![w] = NoPosts]
    /\ runs' = [runs EXCEPT ![w] = NoRuns]
    /\ pc' = [pc EXCEPT ![w] = "outer_finally"]

\* a break out of the loop (lines 241, 328, 348, 367, 370)
Break(w, st) == Leave(w, st, agent_id_to_delete[w], thread_id_to_delete[w])

\* the loop goes on at position at with these values of its locals and of the
\* thread
Continue(w, at, st, umc, lmi, art, cr, r, msgs, p, rs) ==
    /\ pc' = [pc EXCEPT ![w] = at]
    /\ status' = st
    /\ user_message_content' = [user_message_content EXCEPT ![w] = umc]
    /\ last_message_id' = [last_message_id EXCEPT ![w] = lmi]
    /\ agent_response_text' = [agent_response_text EXCEPT ![w] = art]
    /\ current_retries' = [current_retries EXCEPT ![w] = cr]
    /\ run' = [run EXCEPT ![w] = r]
    /\ thread_messages' = [thread_messages EXCEPT ![w] = msgs]
    /\ posted' = [posted EXCEPT ![w] = p]
    /\ runs' = [runs EXCEPT ![w] = rs]
    /\ UNCHANGED <<initial_topic, created, deletions>>

\* a faulty variant: the exception is recorded and the loop goes on
InnerExcept_Swallowed(w, st) ==
    Continue(w, "loop_top", [st EXCEPT !.error = ExceptionText], <<>>,
             last_message_id[w], agent_response_text[w], current_retries[w], run[w],
             thread_messages[w], posted[w], runs[w])

\* lines 374-377: except Exception of the inner try, entered from a raising
\* call made when the status dictionary is st
InnerExcept(w, st) ==
    Break(w, [st EXCEPT !.error = ExceptionText])

\* lines 171-173
W_Begin(w) ==
    /\ pc[w] = "spawned"
    /\ UNCHANGED call
    /\ status' = [status EXCEPT !.is_running = TRUE, !.messages = <<>>]
    /\ pc' = [pc EXCEPT ![w] = "get_topic"]
    /\ UNCHANGED <<message_queue, created, loop, deletions, budget>>

\* lines 177-183: blocking get of the initial topic
W_GetTopic(w) ==
    /\ pc[w] = "get_topic"
    /\ UNCHANGED call
    /\ message_queue # <<>>
    /\ initial_topic' = [initial_topic EXCEPT ![w] = Head(message_queue)]
    /\ message_queue' = Tail(message_queue)
    /\ status' = [status EXCEPT !.messages = Append(@, Entry("user", Head(message_queue)))]
    /\ pc' = [pc EXCEPT ![w] = "create"]
    /\ UNCHANGED <<created, user_message_content, last_message_id, agent_response_text,
                   current_retries, run, thread_messages, posted, runs, deletions, budget>>

\* lines 189-236: credential and project client, connections.get, create_agent,
\* threads.create, and the initial values of the loop's locals
W_Create(w) ==
    /\ pc[w] = "create"
    /\ UNCHANGED call
    /\ \/ \* the credential or the client fails, outside the inner try: the outer
          \* except (lines 396-399) takes it and nothing is cleaned up
          /\ status' = [status EXCEPT !.error = ExceptionText]
          /\ pc' = [pc EXCEPT ![w] = "outer_finally"]
          /\ initial_topic' = [initial_topic EXCEPT ![w] = <<>>]
          /\ UNCHANGED <<created, user_message_content, last_message_id,
                         agent_response_text, current_retries, run, thread_messages,
                         posted, runs, deletions>>
       \/ \* connections.get or create_agent raises
          Leave(w, [status EXCEPT !.error = ExceptionText], FALSE, FALSE)
       \/ \* threads.create raises
          Leave(w, [status EXCEPT !.error = ExceptionText], TRUE, FALSE)
       \/ /\ agent_id_to_delete' = [agent_id_to_delete EXCEPT ![w] = TRUE]
          /\ thread_id_to_delete' = [thread_id_to_delete EXCEPT ![w] = TRUE]
          /\ user_message_content' = [user_message_content EXCEPT ![w] = initial_topic[w]]
          /\ last_message_id' = [last_message_id EXCEPT ![w] = 0]
          /\ agent_response_text' = [agent_response_text EXCEPT ![w] = <<>>]
          /\ current_retries' = [current_retries EXCEPT ![w] = 0]
          /\ pc' = [pc EXCEPT ![w] = "loop_top"]
          /\ UNCHANGED <<status, initial_topic, run, thread_messages, posted, runs,
                         deletions>>
    /\ UNCHANGED <<message_queue, budget>>

\* lines 239-241
W_CapBreak(w) ==
    /\ pc[w] = "loop_top"
    /\ UNCHANGED call
    /\ current_retries[w] >= max_retries
    /\ Break(w, status)
    /\ UNCHANGED <<message_queue, budget>>

\* a faulty variant: the parsing phrases are looked for first
Correction_ParseFirst(code, message) ==
    IF code = "tool_server_error"
    THEN [class |-> "correct",
          text |-> IF \/ Contains(<<"could", "not", "be", "parsed">>, message)
                      \/ Contains(<<"unmatched">>, message)
                   THEN <<"parsing", "error">>
                   ELSE IF Contains(<<"too", "many", "values", "to", "unpack">>, message)
                   THEN <<"wrong", "number", "of", "parameters">>
                   ELSE <<"error", "with", "the", "tool">>]
    ELSE IF code = "server_error" /\ Contains(<<"Sorry,", "something", "went", "wrong">>, message)
    THEN [class |-> "verbatim", text |-> <<>>]
    ELSE [class |-> "fatal", text |-> <<>>]

\* lines 292-328: the class of a failed run and the corrective text to post
Correction(code, message) ==
    IF code = "tool_server_error"
    THEN [class |-> "correct",
          text |-> IF Contains(<<"too", "many", "values", "to", "unpack">>, message)
                   THEN <<"wrong", "number", "of", "parameters">>
                   ELSE IF \/ Contains(<<"could", "not", "be", "parsed">>, message)
                           \/ Contains(<<"unmatched">>, message)
                   THEN <<"parsing", "error">>
                   ELSE <<"error", "with", "the", "tool">>]
    ELSE IF code = "server_error" /\ Contains(<<"Sorry,", "something", "went", "wrong">>, message)
    THEN [class |-> "verbatim", text |-> <<>>]
    ELSE [class |-> "fatal", text |-> <<>>]

\* a faulty variant: a completed run does not reset the counter
RetriesAfterRun_NoReset(run_status, retries) ==
    IF run_status = "failed" THEN retries + 1 ELSE retries

\* lines 281-282 and 288: the retry counter after a run has ended
RetriesAfterRun(run_status, retries) ==
    IF run_status = "completed" THEN 0
    ELSE IF run_status = "failed" THEN retries + 1
    ELSE retries

\* lines 279-328: what the ended run r means, when the polling loop has left
\* the status dictionary st, the last message id lmi, the response text art and
\* the thread with messages msgs, user messages p and runs rs.  Nothing reads
\* run.last_error afterwards: the run is kept without it.
Evaluate(w, r0, st, lmi, art, msgs, p, rs) ==
    LET cr == RetriesAfterRun(r0.status, current_retries[w])
        c == Correction(r0.last_error.code, r0.last_error.message)
        r == [r0 EXCEPT !.last_error = NoError]
    IN
    IF r.status # "failed"
    THEN Continue(w, "finalize", st, user_message_content[w], lmi, art, cr, r, msgs, p, rs)
    ELSE CASE c.class = "correct" ->
                \/ Continue(w, "loop_top", st, <<>>, lmi, <<>>, cr, r, msgs,
                            Post(p, "correction", c.text), rs)
                \/ \* messages.create raises
                   InnerExcept(w, st)
           [] c.class = "verbatim" ->
                Continue(w, "loop_top", st, <<>>, lmi, <<>>, cr, r, msgs, p, rs)
           [] OTHER ->
                Break(w, st)

\* a faulty variant: no run is created with the tool definitions
ForceTools_Never(text) == FALSE

\* line 253: whether the run is created with tools=deep_research_tool.definitions
ForceTools(text) == Contains(SENTINEL, text)

\* lines 243-249: the pending user message, if any, goes onto the thread
PostPending(w) ==
    IF user_message_content[w] # <<>>
    THEN Post(posted[w], "human", user_message_content[w])
    ELSE posted[w]

\* lines 243-263 (and 279-328 when the run comes back already ended):
\* messages.create, runs.create, first test of the polling loop
W_Submit(w) ==
    /\ pc[w] = "loop_top"
    /\ UNCHANGED call
    /\ current_retries[w] < max_retries
    /\ \/ \* messages.create or runs.create raises
          /\ InnerExcept(w, status)
          /\ UNCHANGED budget
       \/ /\ budget.runs > 0
          /\ \E r \in RunObjects({"queued"} \cup TerminalStatuses), b \in Bursts :
                LET msgs == AfterBurst(thread_messages[w], b)
                    rs == RunEnded(RunCreated(runs[w], ForceTools(agent_response_text[w])),
                                   r.status)
                IN
                /\ budget' = [budget EXCEPT !.runs = @ - 1, !.msgs = @ - b.n]
                /\ IF r.status \in PendingStatuses
                   THEN Continue(w, "poll", status, user_message_content[w],
                                 last_message_id[w], agent_response_text[w],
                                 current_retries[w], r, msgs, PostPending(w), rs)
                   ELSE Evaluate(w, r, status, last_message_id[w], agent_response_text[w],
                                 msgs, PostPending(w), rs)
    /\ UNCHANGED message_queue

\* lines 128-160: fetch_and_print_new_agent_response, as (new id, new transcript)
fetch_and_print_new_agent_response(msgs, last_id, transcript) ==
    LET response == LastAgentMessage(msgs) IN
    IF response.id = 0 \/ response.id = last_id
    THEN [id |-> last_id, messages |-> transcript]
    ELSE [id |-> response.id,
          messages |-> Append(transcript, Entry("assistant", JoinNL(response.text_messages)))]

\* lines 263-277 (and 279-328 when the run is seen ended): one pass of the
\* polling loop
W_Poll(w) ==
    /\ pc[w] = "poll"
    /\ UNCHANGED call
    /\ \/ \* runs.get or a messages call raises
          /\ InnerExcept(w, status)
          /\ UNCHANGED budget
       \/ \E r \in RunObjects({"in_progress"} \cup TerminalStatuses), b \in Bursts :
             LET msgs == AfterBurst(thread_messages[w], b)
                 got == fetch_and_print_new_agent_response(msgs, last_message_id[w],
                                                           status.messages)
                 st == [status EXCEPT !.messages = got.messages]
                 \* lines 272-275: messages.get of the id just fetched
                 art == IF got.id # last_message_id[w]
                        THEN JoinNL(msgs.text_messages)
                        ELSE agent_response_text[w]
                 rs == RunEnded(runs[w], r.status)
             IN
             /\ budget' = [budget EXCEPT !.msgs = @ - b.n]
             /\ \/ IF r.status \in PendingStatuses
                   THEN Continue(w, "poll", st, user_message_content[w], got.id, art,
                                 current_retries[w], r, msgs, posted[w], rs)
                   ELSE Evaluate(w, r, st, got.id, art, msgs, posted[w], rs)
                \/ \* line 274: messages.get raises, after the transcript grew
                   /\ got.id # last_message_id[w]
                   /\ InnerExcept(w, st)
    /\ UNCHANGED message_queue

\* a faulty variant: the human is asked whatever the agent said
NeedsHumanInput_Always(text) == TRUE

\* line 350: whether the orchestrator asks the human before the next run
NeedsHumanInput(text) == ~Contains(SENTINEL, text)

\* lines 330-353 and 371-372: final message, report, continuation decision
W_Finalize(w) ==
    /\ pc[w] = "finalize"
    /\ UNCHANGED call
    /\ \/ \* get_last_message_by_role or create_research_summary raises
          InnerExcept(w, status)
       \/ LET final_message == LastAgentMessage(thread_messages[w])
              art == IF final_message.id # 0
                     THEN JoinNL(final_message.text_messages)
                     ELSE agent_response_text[w]
              lmi == IF final_message.id # 0 THEN final_message.id ELSE last_message_id[w]
          IN
          IF final_message.id # 0 /\ final_message.url_citation_annotations # <<>>
          THEN Break(w, [status EXCEPT !.result_file = "research_summary.md",
                                                    !.waiting_for_input = FALSE])
          ELSE IF NeedsHumanInput(art)
          THEN Continue(w, "wait_input", [status EXCEPT !.waiting_for_input = TRUE],
                        user_message_content[w], lmi, art, current_retries[w], run[w],
                        thread_messages[w], posted[w], runs[w])
          ELSE Continue(w, "loop_top", status, <<>>, lmi, art, current_retries[w], run[w],
                        thread_messages[w], posted[w], runs[w])
    /\ UNCHANGED <<message_queue, budget>>

\* a faulty variant: the reply is compared as it was typed
IsExit_CaseSensitive(text) == text \in ExitWords

\* line 365
IsExit(text) == Lower(text) \in ExitWords

\* lines 357-367: a reply arrives within the wait
W_ReceiveReply(w) ==
    /\ pc[w] = "wait_input"
    /\ UNCHANGED call
    /\ message_queue # <<>>
    /\ message_queue' = Tail(message_queue)
    /\ LET reply == Head(message_queue)
           st == [status EXCEPT !.messages = Append(@, Entry("user", reply)),
                                !.waiting_for_input = FALSE]
       IN
       IF IsExit(reply)
       THEN Break(w, st)
       ELSE Continue(w, "loop_top", st, reply, last_message_id[w], agent_response_text[w],
                     current_retries[w], run[w], thread_messages[w], posted[w], runs[w])
    /\ UNCHANGED budget

\* lines 357 and 368-370: queue.Empty after the 300 second wait
W_Timeout(w) ==
    /\ pc[w] = "wait_input"
    /\ UNCHANGED call
    /\ message_queue = <<>>
    /\ Break(w, status)
    /\ UNCHANGED <<message_queue, budget>>

\* lines 400-403: the coroutine returns, and with it its frame (lines 166-169)
\* and the records kept here about its session
W_OuterFinally(w) ==
    /\ pc[w] = "outer_finally"
    /\ UNCHANGED call
    /\ status' = [status EXCEPT !.is_running = FALSE]
    /\ pc' = [pc EXCEPT ![w] = "done"]
    /\ agent_id_to_delete' = [agent_id_to_delete EXCEPT ![w] = FALSE]
    /\ thread_id_to_delete' = [thread_id_to_delete EXCEPT ![w] = FALSE]
    /\ deletions' = [deletions EXCEPT ![w] = <<>>]
    /\ UNCHANGED <<message_queue, loop, budget>>

Next ==
    \/ \E raw \in RawTopics, code \in {200, 400} : start_research(raw, code)
    \/ \E raw \in RawMessages, code \in {200, 400} : send_message(raw, code)
    \/ \E w \in Workers : W_Begin(w)
    \/ \E w \in Workers : W_GetTopic(w)
    \/ \E w \in Workers : W_Create(w)
    \/ \E w \in Workers : W_CapBreak(w)
    \/ \E w \in Workers : W_Submit(w)
    \/ \E w \in Workers : W_Poll(w)
    \/ \E w \in Workers : W_Finalize(w)
    \/ \E w \in Workers : W_ReceiveReply(w)
    \/ \E w \in Workers : W_Timeout(w)
    \/ \E w \in Workers : W_OuterFinally(w)

Spec == Init /\ [][Next]_vars

\* ------------------------------------------------------------- properties
HasDeletion(w, what) == \E i \in DOMAIN deletions[w] : deletions[w][i].what = what

\* w takes a step of run_research_session
Steps(w) == pc'[w] # pc[w] \/ <<run[w], thread_messages[w]>>' # <<run[w], thread_messages[w]>>

\* C1: at most one orchestrator task is alive at any time: a start_research
\* issued after one was accepted and before its session has ended spawns no
\* second worker.
SingleOrchestrator == Cardinality({w \in Workers : Alive(w)}) <= 1

\* C2: on every path by which a run ends, normal or exceptional, deletion has
\* been attempted for the agent and the thread the run created before
\* is_running is set false, and is_running is false once the run has ended.
CleanupBeforeIdle ==
    [][\A w \in Workers :
          (pc[w] # "done" /\ pc'[w] = "done") =>
              /\ agent_id_to_delete[w] => HasDeletion(w, "agent")
              /\ thread_id_to_delete[w] => HasDeletion(w, "thread")
              /\ ~status'.is_running]_vars

\* a session that created both resources ends on the exceptional path with both
\* deletions attempted, the agent's first
CleanupBeforeIdle_Witness ==
    \E w \in Workers :
        /\ pc[w] = "outer_finally"
        /\ status.error # NoneVal
        /\ status.is_running
        /\ agent_id_to_delete[w] /\ thread_id_to_delete[w]
        /\ Attempted(deletions[w]) = <<"agent", "thread">>

\* C3: when three runs in a row have ended failed, the orchestrator creates no
\* fourth run, leaves with error set to a non-null message, and attempts the
\* deletion of the agent and the thread.
ThreeStrikesSetError ==
    [][\A w \in Workers :
          (pc[w] = "loop_top" /\ runs[w].failed_in_a_row >= max_retries /\ Steps(w)) =>
              /\ budget'.runs = budget.runs
              /\ pc'[w] = "outer_finally"
              /\ status'.error # NoneVal
              /\ HasDeletion(w, "agent")' /\ HasDeletion(w, "thread")']_vars

\* C4: when no human message arrives within the wait, the orchestrator stops
\* waiting, leaves with error set to a non-null message, and attempts the
\* deletion of the agent and the thread.
InputTimeoutSetsError ==
    [][\A w \in Workers :
          (pc[w] = "wait_input" /\ message_queue = <<>> /\ Steps(w)) =>
              /\ pc'[w] = "outer_finally"
              /\ status'.error # NoneVal
              /\ HasDeletion(w, "agent")' /\ HasDeletion(w, "thread")']_vars

\* everything a handler may touch besides its response
session == <<status, message_queue, pc, created, loop, deletions, budget>>
Codes == {200, 400}

\* C5: a start_research handled while is_running is true returns 400 and
\* changes nothing: the status dictionary and the queue are unchanged and no
\* worker is spawned.
StartWhileRunningRejected ==
    [][\A raw \in RawTopics, code \in Codes :
          (status.is_running /\ start_research(raw, code)) =>
              /\ code = 400
              /\ UNCHANGED session]_vars

\* a session is running, a worker could still be spawned, and start_research
\* answers 400 to a proper topic
StartWhileRunningRejected_Witness ==
    /\ status.is_running
    /\ budget.workers > 0
    /\ \E raw \in RawTopics : Strip(raw) # <<>> /\ StartResponse(status, raw) = 400

\* C6: send_message answers 200 and enqueues the message only when is_running
\* is true, waiting_for_input is true and the stripped message is non-empty;
\* otherwise it answers 400 and changes neither the status dictionary nor the
\* queue.  An accepted call changes the queue only.
SendMessageGuarded ==
    [][\A raw \in RawMessages, code \in Codes :
          send_message(raw, code) =>
              /\ code = 200 =>
                    /\ status.is_running /\ status.waiting_for_input /\ Strip(raw) # <<>>
                    /\ message_queue' = Append(message_queue, Strip(raw))
                    /\ UNCHANGED <<status, pc, created, loop, deletions>>
              /\ code = 400 =>
                    /\ ~(status.is_running /\ status.waiting_for_input /\ Strip(raw) # <<>>)
                    /\ UNCHANGED session]_vars

\* a reply was accepted and is in the queue of a waiting session
SendMessageGuarded_Witness ==
    /\ status.is_running /\ status.waiting_for_input
    /\ \E w \in Workers : pc[w] = "wait_input"
    /\ message_queue = << <<"b">> >>

InLoop == {"loop_top", "poll", "finalize", "wait_input"}

\* C7: the retry counter is zero after every run that ended completed: it
\* counts the runs that ended failed since the last completed one, and the loop
\* is left at the retry cap only when three runs ended failed with no completed
\* run between them.
RetryCounterCountsFailuresInARow ==
    [][\A w \in Workers :
          /\ pc'[w] \in InLoop => current_retries'[w] = runs'[w].failed_in_a_row
          /\ (pc'[w] \in InLoop /\ run'[w].status = "completed" /\ runs'[w] # runs[w]) =>
                current_retries'[w] = 0
          /\ W_CapBreak(w) => runs[w].failed_in_a_row >= max_retries]_vars

\* the topic and two corrections were posted, nothing else was said, and the
\* run after the second correction ended completed: the counter is back at zero
\* and the session goes on
RetryCounterCountsFailuresInARow_Witness ==
    \E w \in Workers :
        /\ pc[w] = "finalize"
        /\ status.messages = << Entry("user", <<"a">>) >>
        /\ posted[w].n = 3 /\ posted[w].last.kind = "correction"
        /\ runs[w].failed_in_a_row = 0
        /\ run[w].status = "completed"
        /\ current_retries[w] = 0

\* the last run of w did not end failed and the latest assistant message, without
\* citations, names the research task
SentinelCase(w) ==
    /\ run[w].status \in TerminalStatuses \ {"failed"}
    /\ thread_messages[w].n > 0
    /\ thread_messages[w].url_citation_annotations = <<>>
    /\ \E i \in DOMAIN thread_messages[w].text_messages :
          Contains(SENTINEL, thread_messages[w].text_messages[i])

\* C8: when a run ends not failed and the latest assistant message has no
\* citations and contains start_research_task, the orchestrator neither sets
\* waiting_for_input nor waits on the queue; it posts no user message and the
\* next run it creates has the research tool definitions forced onto it.
SentinelSkipsHuman ==
    [][\A w \in Workers :
          /\ (pc[w] = "finalize" /\ SentinelCase(w) /\ Steps(w)) =>
                /\ pc'[w] \in {"loop_top", "outer_finally"}
                /\ status'.waiting_for_input = status.waiting_for_input
                /\ message_queue' = message_queue
                /\ pc'[w] = "loop_top" => posted'[w] = posted[w]
          /\ (pc[w] = "loop_top" /\ SentinelCase(w) /\ Steps(w)
                /\ budget'.runs = budget.runs - 1 /\ pc'[w] \in InLoop) =>
                /\ runs'[w].forced
                /\ posted'[w] = posted[w] \/ posted'[w].last.kind = "correction"]_vars

\* the second run of a session was created with the tools forced, after the
\* topic alone was posted, and nobody was asked anything
SentinelSkipsHuman_Witness ==
    \E w \in Workers :
        /\ pc[w] = "poll"
        /\ runs[w].forced
        /\ posted[w].n = 1 /\ posted[w].last.kind = "human"
        /\ ~status.waiting_for_input
        /\ Len(status.messages) = 2

\* C9: whenever waiting_for_input becomes true, the last transcript entry is the
\* assistant message the human is being asked to answer (stated for a session
\* that runs alone, with an assistant message on its thread).
AssistantTurnBeforeWait ==
    [][\A w \in Workers :
          (/\ pc[w] = "finalize" /\ pc'[w] = "wait_input"
           /\ thread_messages[w].n > 0
           /\ \A v \in Workers \ {w} : pc[v] = "unborn") =>
              /\ status'.waiting_for_input
              /\ status'.messages # <<>>
              /\ status'.messages[Len(status'.messages)] =
                    Entry("assistant", JoinNL(thread_messages[w].text_messages))]_vars

\* C10 as stated: in every state, if error is non-null then is_running is false.
ErrorMeansIdle == status.error # NoneVal => ~status.is_running

\* C10: the step by which an orchestrator records an error leaves the loop and
\* changes no other field of the status dictionary; from there the orchestrator
\* creates no run, posts no message, takes nothing from the queue and changes
\* nothing of the status dictionary except that its last step sets is_running
\* to false.
ErrorEndsOrchestrator ==
    [][\A w \in Workers :
          /\ (Steps(w) /\ status'.error # NoneVal /\ status'.error # status.error) =>
                /\ pc'[w] = "outer_finally"
                /\ status'.is_running = status.is_running
                /\ status'.waiting_for_input = status.waiting_for_input
                /\ status'.result_file = status.result_file
          /\ (pc[w] = "outer_finally" /\ Steps(w)) =>
                /\ pc'[w] = "done"
                /\ status' = [status EXCEPT !.is_running = FALSE]
                /\ UNCHANGED <<message_queue, budget, runs, posted, thread_messages>>]_vars

\* an error is recorded, cleanup was attempted, and is_running is still true
ErrorEndsOrchestrator_Witness ==
    \E w \in Workers :
        /\ pc[w] = "outer_finally"
        /\ status.error = ExceptionText
        /\ status.is_running
        /\ HasDeletion(w, "agent") /\ HasDeletion(w, "thread")

\* C11: when a run ends failed with an error that is neither under
\* tool_server_error nor the passing server_error, the session ends without
\* another run and with error non-null.  (The loop is left straight from
\* polling only on such a failure or on an exception.)
UnrecognizedFailureSetsError ==
    [][\A w \in Workers :
          (pc[w] = "poll" /\ pc'[w] = "outer_finally") =>
              /\ budget'.runs = budget.runs
              /\ HasDeletion(w, "agent")' /\ HasDeletion(w, "thread")'
              /\ status'.error # NoneVal]_vars

\* C12: if creating the agent or the thread raises, the session leaves with
\* error set to the failure text, no run created and no creation tried again;
\* what was already created, and nothing else, is deleted (the agent alone when
\* the thread's creation failed, nothing when the agent's did), and the
\* session's last step leaves is_running false.
SetupFailureEndsSession ==
    [][\A w \in Workers :
          /\ (pc[w] = "create" /\ pc'[w] = "outer_finally") =>
                /\ status'.error = ExceptionText
                /\ budget' = budget
                /\ ~thread_id_to_delete'[w]
                /\ Attempted(deletions'[w]) = IF agent_id_to_delete'[w] THEN <<"agent">> ELSE <<>>
          /\ (pc[w] = "outer_finally" /\ Steps(w)) =>
                /\ pc'[w] = "done"
                /\ ~status'.is_running]_vars

\* the thread's creation failed: the agent alone is deleted and the error stands
SetupFailureEndsSession_Witness ==
    \E w \in Workers :
        /\ pc[w] = "outer_finally"
        /\ agent_id_to_delete[w] /\ ~thread_id_to_delete[w]
        /\ Attempted(deletions[w]) = <<"agent">>
        /\ status.error = ExceptionText
        /\ budget.runs = MaxRuns


\* ------------------------------------------- functions applied on their own
\* how many pieces an error message is made of, how often one input is classified
MaxFragments == 2
MaxCalls == 2

program == <<status, message_queue, pc, created, loop, deletions, budget>>

\* run.last_error.get('code'), None when there is no last_error
ErrorCodes == {"tool_server_error", "server_error", "rate_limit_exceeded", NoneVal}

\* pieces of run.last_error.get('message', ''): the four phrases looked for at
\* lines 293, 295 and 321, a truncated one and one in another case
Fragments ==
    { <<"too", "many", "values", "to", "unpack">>,
      <<"could", "not", "be", "parsed">>,
      <<"unmatched">>,
      <<"Sorry,", "something", "went", "wrong">>,
      <<"too", "many", "values">>,
      <<"sorry,", "something", "went", "wrong">> }

RECURSIVE ErrorMessages(_)
ErrorMessages(k) ==
    IF k = 0 THEN { <<>> }
    ELSE LET shorter == ErrorMessages(k - 1)
         IN  shorter \cup { m \o f : m \in shorter, f \in Fragments }

CorrectionCalls ==
    { [fn |-> "correction", input |-> [code |-> c, message |-> m], outputs |-> <<>>] :
        c \in ErrorCodes, m \in ErrorMessages(MaxFragments) }

\* lines 285-328 applied to one failed run's last_error
ClassifyFailure ==
    /\ call.fn = "correction"
    /\ Len(call.outputs) < MaxCalls
    /\ call' = [call EXCEPT !.outputs =
                    Append(@, Correction(call.input.code, call.input.message))]
    /\ UNCHANGED program

\* C13: the class and the corrective text depend on the failed run's error code
\* and message alone.  Under tool_server_error every message is answered with a
\* correction: the parameter-count text if it contains "too many values to
\* unpack", else the formatting text if it contains "could not be parsed" or
\* "unmatched", else the generic text.  server_error with "Sorry, something went
\* wrong" is retried with nothing posted; every other pair is fatal.  The same
\* pair classified again gives the same class and the same text.
CorrectionIsAFunctionOfTheError ==
    call.fn = "correction" =>
        LET code == call.input.code
            has(phrase) == Contains(phrase, call.input.message)
            unpack == has(<<"too", "many", "values", "to", "unpack">>)
            parse == has(<<"could", "not", "be", "parsed">>) \/ has(<<"unmatched">>)
            sorry == has(<<"Sorry,", "something", "went", "wrong">>)
        IN  \A i \in DOMAIN call.outputs :
                LET o == call.outputs[i]
                IN  /\ o = call.outputs[1]
                    /\ code = "tool_server_error" =>
                          /\ o.class = "correct"
                          /\ unpack => o.text = <<"wrong", "number", "of", "parameters">>
                          /\ ~unpack /\ parse => o.text = <<"parsing", "error">>
                          /\ ~unpack /\ ~parse => o.text = <<"error", "with", "the", "tool">>
                    /\ code = "server_error" /\ sorry =>
                          o.class = "verbatim" /\ o.text = <<>>
                    /\ code # "tool_server_error" /\ ~(code = "server_error" /\ sorry) =>
                          o.class = "fatal"

\* a message with both the unpack and the unmatched phrase, classified twice
CorrectionIsAFunctionOfTheError_Witness ==
    /\ call.fn = "correction"
    /\ Len(call.outputs) = 2
    /\ call.input.code = "tool_server_error"
    /\ Contains(<<"unmatched">>, call.input.message)
    /\ Contains(<<"too", "many", "values", "to", "unpack">>, call.input.message)
    /\ call.outputs[2].text = <<"wrong", "number", "of", "parameters">>


\* how many citations a reported message carries
MaxCitations == 3

\* ann.url_citation.title, which may be None or empty, and ann.url_citation.url
CitationTitles == {"A", "B", "", NoneVal}
CitationUrls == {"u1", "u2"}
Citations == { [title |-> t, url |-> u] : t \in CitationTitles, u \in CitationUrls }

RECURSIVE CitationLists(_)
CitationLists(k) ==
    IF k = 0 THEN { <<>> }
    ELSE LET shorter == CitationLists(k - 1)
         IN  shorter \cup { Append(anns, c) : anns \in shorter, c \in Citations }

SummaryCalls ==
    { [fn |-> "summary",
       input |-> [text_messages |-> << <<" ", "report">>, <<"end", " ">> >>,
                  url_citation_annotations |-> anns],
       outputs |-> <<>>] : anns \in CitationLists(MaxCitations) }

\* "\n\n".join(t.text.value.strip() for t in message.text_messages)
RECURSIVE JoinParagraphs(_)
JoinParagraphs(segs) ==
    IF segs = <<>> THEN <<>>
    ELSE IF Len(segs) = 1 THEN Strip(segs[1])
    ELSE Strip(segs[1]) \o <<"\n\n">> \o JoinParagraphs(Tail(segs))

\* a faulty variant: the urls written are not remembered
ReferenceLines_KeepAll(anns, seen_urls) ==
    [i \in DOMAIN anns |->
        <<"- [", IF anns[i].title \in {NoneVal, ""} THEN anns[i].url ELSE anns[i].title,
          "](", anns[i].url, ")\n">>]

\* lines 119-124: the writes of the loop over the annotations; a title that is
\* None or empty is falsy and gives way to the url
RECURSIVE ReferenceLines(_, _)
ReferenceLines(anns, seen_urls) ==
    IF anns = <<>> THEN <<>>
    ELSE LET url == Head(anns).url
             title == IF Head(anns).title \in {NoneVal, ""} THEN url ELSE Head(anns).title
         IN  IF url \notin seen_urls
             THEN << <<"- [", title, "](", url, ")\n">> >>
                      \o ReferenceLines(Tail(anns), seen_urls \cup {url})
             ELSE ReferenceLines(Tail(anns), seen_urls)

\* lines 112-124: what is written to the file, write by write
create_research_summary(message) ==
    << JoinParagraphs(message.text_messages) >>
        \o IF message.url_citation_annotations # <<>>
           THEN << <<"\n\n## References\n">> >>
                    \o ReferenceLines(message.url_citation_annotations, {})
           ELSE <<>>

\* lines 106-126 applied to one message; the file is opened with "w", so a
\* second call writes it anew
WriteSummary ==
    /\ call.fn = "summary"
    /\ Len(call.outputs) < MaxCalls
    /\ call' = [call EXCEPT !.outputs = Append(@, create_research_summary(call.input))]
    /\ UNCHANGED program

InitFn == Idle /\ call \in CorrectionCalls \cup SummaryCalls

NextFn ==
    \/ ClassifyFailure
    \/ WriteSummary

SpecFn == InitFn /\ [][NextFn]_vars

\* C14: the References section lists each distinct url once, in the order of
\* first occurrence, with the title of that first occurrence, or the url when
\* that title is absent (None or empty); later occurrences are dropped, and
\* the section is not written when the message has no citation.
ReferencesListEachUrlOnce ==
    call.fn = "summary" =>
        LET anns == call.input.url_citation_annotations
            First(u) == CHOOSE i \in DOMAIN anns :
                            anns[i].url = u /\ \A j \in 1..(i - 1) : anns[j].url # u
        IN  \A c \in DOMAIN call.outputs :
                LET file == call.outputs[c]
                    lines == SubSeq(file, 3, Len(file))
                IN  IF anns = <<>> THEN Len(file) = 1
                    ELSE /\ file[2] = <<"\n\n## References\n">>
                         /\ \A i \in DOMAIN anns :
                                Cardinality({k \in DOMAIN lines : lines[k][4] = anns[i].url}) = 1
                         /\ \A k \in DOMAIN lines :
                                /\ \E i \in DOMAIN anns : anns[i].url = lines[k][4]
                                /\ LET t == anns[First(lines[k][4])].title
                                   IN  lines[k] = <<"- [", IF t \in {NoneVal, ""} THEN lines[k][4] ELSE t,
                                                    "](", lines[k][4], ")\n">>
                                /\ \A l \in DOMAIN lines :
                                       k < l => First(lines[k][4]) < First(lines[l][4])

\* ("A", u1), ("B", u1), (None, u2) written as u1 titled "A", then u2 titled u2
ReferencesListEachUrlOnce_Witness ==
    /\ call.fn = "summary"
    /\ call.input.url_citation_annotations =
          << [title |-> "A", url |-> "u1"], [title |-> "B", url |-> "u1"],
             [title |-> NoneVal, url |-> "u2"] >>
    /\ Len(call.outputs) = 1
    /\ SubSeq(call.outputs[1], 3, Len(call.outputs[1])) =
          << <<"- [", "A", "](", "u1", ")\n">>, <<"- [", "u2", "](", "u2", ")\n">> >>


\* C15: waiting_for_input is true only while a worker is blocked on the queue
\* for a human reply: false before the first wait, false once a reply is
\* taken, and false in every state after the session has ended, an input
\* timeout included.
WaitingOnlyWhileBlocked ==
    status.waiting_for_input => \E w \in Workers : pc[w] = "wait_input"


\* the topics start_research may queue
Topics == { Strip(raw) : raw \in RawTopics } \ { <<>> }

\* C16: the first transcript entry of a session is the topic of the
\* start_research request that spawned it: what a worker takes from the queue
\* as its topic is never a message that send_message queued, such as a reply
\* accepted between a timeout and the end of cleanup of the session before.
TopicIsFromStartResearch ==
    [][\A w \in Workers :
          (pc[w] = "get_topic" /\ pc'[w] = "create") =>
              /\ initial_topic'[w] \in Topics
              /\ status'.messages[Len(status'.messages)] = Entry("user", initial_topic'[w])]_vars


\* C17: in cleanup the agent's deletion is called before the thread's, and the
\* thread's is called whether or not the agent's went well.  A deletion that
\* fails leaves error as it was: a session left on a timeout or on an exit
\* word, where nothing else can set it, keeps its error through cleanup, and
\* the last step of a session changes nothing of the status but is_running,
\* which it makes false, whatever the deletions' outcomes.
CleanupInOrderAndIsolated ==
    [][\A w \in Workers :
          /\ (pc[w] # "outer_finally" /\ pc'[w] = "outer_finally") =>
                /\ Attempted(deletions'[w]) =
                      (IF agent_id_to_delete'[w] THEN <<"agent">> ELSE <<>>)
                          \o (IF thread_id_to_delete'[w] THEN <<"thread">> ELSE <<>>)
                /\ pc[w] = "wait_input" => status'.error = status.error
          /\ (pc[w] = "outer_finally" /\ Steps(w)) =>
                /\ pc'[w] = "done"
                /\ status' = [status EXCEPT !.is_running = FALSE]]_vars

\* the agent's deletion failed after a timeout: the thread's was called all the
\* same and error is still None
CleanupInOrderAndIsolated_Witness ==
    \E w \in Workers :
        /\ pc[w] = "outer_finally"
        /\ status.waiting_for_input
        /\ status.error = NoneVal
        /\ Len(deletions[w]) = 2
        /\ deletions[w][1] = [what |-> "agent", ok |-> FALSE]
        /\ deletions[w][2].what = "thread"


\* C18: on a failed run the retry counter is incremented first, and when it is
\* then 3 or more no corrective message is posted for that failure: a
\* correction is posted only when the counter after the increment is below 3.
NoCorrectionAtTheCap ==
    [][\A w \in Workers :
          (/\ current_retries'[w] = current_retries[w] + 1
           /\ posted'[w].n > posted[w].n
           /\ posted'[w].last.kind = "correction") =>
              current_retries'[w] < max_retries]_vars


\* entries of the transcript written for the assistant
AssistantEntries ==
    { i \in DOMAIN status.messages : status.messages[i].role = "assistant" }

\* C19: once a run has been polled until its status left the pending ones,
\* every assistant message that appeared on the thread has been appended to
\* the transcript exactly once: none twice and none skipped, also when two
\* appear within one poll interval or when the run is out of the pending
\* states at its first observation.
EveryAssistantMessageSurfaced ==
    \A w \in Workers :
        (/\ pc[w] \in {"finalize", "wait_input"}
         /\ \A v \in Workers \ {w} : ~Alive(v)) =>
            Cardinality(AssistantEntries) = thread_messages[w].n


\* the latest assistant message on w's thread contains start_research_task
LastResponseHasSentinel(w) ==
    \E i \in DOMAIN thread_messages[w].text_messages :
        Contains(SENTINEL, thread_messages[w].text_messages[i])

\* the step by which w creates a run and stays in the loop: w goes on to poll
\* or to finalize, or is back at the top with one more failure counted
CreatesRun(w) ==
    /\ pc[w] = "loop_top"
    /\ budget'.runs = budget.runs - 1
    /\ pc'[w] \in InLoop
    /\ pc'[w] # "loop_top" \/ current_retries'[w] # current_retries[w]

\* C20 as stated: every run, a retry after a failed run included, is created
\* with the tool definitions forced exactly when the last agent response
\* contained start_research_task (stated for runs created when the orchestrator
\* has read the latest message of the thread).
EveryRunForcedBySentinel ==
    [][\A w \in Workers :
          (CreatesRun(w) /\ last_message_id[w] = thread_messages[w].n) =>
              (runs'[w].forced <=> LastResponseHasSentinel(w))]_vars

\* C20: a run is created with the tool definitions forced exactly when the last
\* agent response contained start_research_task and the run is not a retry; a
\* run created after a failed run is created standard, whatever the last agent
\* response said.
RunForcedBySentinelUnlessRetry ==
    [][\A w \in Workers :
          CreatesRun(w) =>
              (runs'[w].forced <=>
                  (LastResponseHasSentinel(w) /\ run[w].status # "failed"))]_vars

\* a retry just created standard, after the run forced by the sentinel failed
RunForcedBySentinelUnlessRetry_Witness ==
    \E w \in Workers :
        /\ pc[w] = "poll"
        /\ run[w].status = "queued"
        /\ ~runs[w].forced
        /\ runs[w].failed_in_a_row >= 1
        /\ thread_messages[w].n = 1
        /\ LastResponseHasSentinel(w)
        /\ \E i \in AssistantEntries : Contains(SENTINEL, status.messages[i].content)


\* C21: the reply taken during a human wait is appended to the transcript as
\* a user entry and waiting_for_input is cleared; error, result_file and
\* is_running are left as they were and no run is created by that step.  If the
\* reply is "exit" or "quit" in any case the session leaves for cleanup, with
\* both deletions called and nothing posted to the thread; any other reply
\* becomes the pending content, which is posted to the thread by the step that
\* creates the next run.
ExitWordEndsSession ==
    [][\A w \in Workers :
          /\ (pc[w] = "wait_input" /\ pc'[w] # "wait_input" /\ message_queue # <<>>) =>
                LET reply == Head(message_queue) IN
                /\ message_queue' = Tail(message_queue)
                /\ status' = [status EXCEPT
                                  !.messages = Append(@, Entry("user", reply)),
                                  !.waiting_for_input = FALSE]
                /\ budget' = budget
                /\ IF Lower(reply) \in ExitWords
                   THEN /\ pc'[w] = "outer_finally"
                        /\ Attempted(deletions'[w]) = <<"agent", "thread">>
                        /\ posted'[w].n <= posted[w].n
                   ELSE /\ pc'[w] = "loop_top"
                        /\ user_message_content'[w] = reply
                        /\ posted'[w] = posted[w]
          /\ (CreatesRun(w) /\ user_message_content[w] # <<>>) =>
                LET human == Post(posted[w], "human", user_message_content[w]) IN
                \/ posted'[w] = human
                \/ posted'[w].n = human.n + 1 /\ posted'[w].last.kind = "correction"]_vars

\* the reply "Quit" was taken: the session is in cleanup with the reply as the
\* last transcript entry and neither error nor result_file set
ExitWordEndsSession_Witness ==
    \E w \in Workers :
        /\ pc[w] = "outer_finally"
        /\ status.messages # <<>>
        /\ status.messages[Len(status.messages)] = Entry("user", <<"Q", "u", "i", "t">>)
        /\ ~status.waiting_for_input
        /\ status.error = NoneVal /\ status.result_file = NoneVal
        /\ Attempted(deletions[w]) = <<"agent", "thread">>


\* no session overlaps w's: the others were never started, or every session is
\* requested after the one before it has ended
RunsAlone(w) == ~budget.overlap \/ \A v \in Workers \ {w} : pc[v] = "unborn"

\* w's thread has an assistant message and the latest one carries citations
LatestHasCitations(w) ==
    thread_messages[w].n > 0 /\ thread_messages[w].url_citation_annotations # <<>>

\* C22: result_file becomes non-null only by the step that ends a session
\* with a report: a worker past a run that did not end failed, whose latest
\* assistant message carries citations, leaves the loop with result_file set
\* and waiting_for_input false, creating no run.  With citations that step
\* either does so or fails on a raising call; without them result_file is not
\* touched.  A session that runs alone and leaves on an exit word, the retry
\* cap, an unrecognized failure, a timeout or a setup failure has result_file
\* null when it leaves, and its last step keeps it.
ResultFileOnlyWithReport ==
    [][/\ (status'.result_file # status.result_file /\ status'.result_file # NoneVal) =>
              \E w \in Workers :
                  /\ pc[w] = "finalize" /\ pc'[w] = "outer_finally"
                  /\ run[w].status \in TerminalStatuses \ {"failed"}
                  /\ LatestHasCitations(w)
                  /\ ~status'.waiting_for_input
                  /\ status'.error = status.error
                  /\ budget' = budget
       /\ \A w \in Workers :
             /\ (pc[w] = "finalize" /\ Steps(w) /\ LatestHasCitations(w)) =>
                   /\ pc'[w] = "outer_finally"
                   /\ \/ status'.result_file # NoneVal /\ ~status'.waiting_for_input
                      \/ status'.error = ExceptionText
             /\ (pc[w] \in {"create", "loop_top", "poll", "wait_input"}
                   /\ pc'[w] = "outer_finally" /\ RunsAlone(w)) =>
                   status'.result_file = NoneVal
             /\ (pc[w] = "outer_finally" /\ Steps(w)) =>
                   status'.result_file = status.result_file]_vars

\* a session in cleanup after its report was written
ResultFileOnlyWithReport_Witness ==
    \E w \in Workers :
        /\ pc[w] = "outer_finally"
        /\ status.result_file # NoneVal
        /\ ~status.waiting_for_input
        /\ status.error = NoneVal
        /\ \E i \in AssistantEntries : status.messages[i].content = <<"report">>

====
